---- MODULE Spec2Model ----
(***************************************************************************)
(* Model of the proposal ledger contract of core/contract/src/lib.rs:      *)
(* the Contract struct, its four mutating methods and the values they      *)
(* return or the assertion they fail on.                                   *)
(*                                                                         *)
(* The host runs calls one at a time and a failed assertion aborts the     *)
(* call; every assertion of the contract precedes its first write, so an   *)
(* aborted call leaves the Contract fields as they were.                   *)
(*                                                                         *)
(* The u128 counters are modelled as naturals: within the bounds below no  *)
(* counter comes anywhere near 2^128.  The log! lines write no field and   *)
(* are left out.                                                           *)
(*                                                                         *)
(* Besides the seven fields of Contract the state holds what a caller and  *)
(* an observer of the calls see:                                           *)
(*   last         the last call made: the method, the proposal id it was   *)
(*                about, and "ok" / "true" / "false" for its return or     *)
(*                the assertion it failed on ("NotFound", "AlreadyClosed", *)
(*                "NotAuthorized"); after a query also val, the value it   *)
(*                returned                                                 *)
(*   create_calls the number of create_proposal calls made                 *)
(*   resolutions  per proposal id, the close_proposal and void_proposal    *)
(*                calls that wrote to the ledger, in order                 *)
(***************************************************************************)
EXTENDS Integers, Sequences, FiniteSets, TLC

\* ---- bounds of the exploration ----
\* A run creates proposals and casts votes as long as the stored records stay
\* within MaxLoad, a proposal weighing two and a vote one: one proposal with
\* four votes, two proposals with two votes between them, three proposals.
MaxLoad == 6
MaxProposals == MaxLoad \div 2

\* ---- inputs ----
Accounts == {"harry", "mikky"}
Texts == {"Should bears be legal pets?", "Should wolves be legal pets?"}
Ids == 1..MaxProposals

VARIABLES
    proposal_count,
    successful_proposal_count,
    rejected_proposal_count,
    proposal_vals,
    proposal_owners,
    proposal_votes,
    proposal_fate,
    last,
    create_calls,
    resolutions

ledger == <<proposal_count, successful_proposal_count, rejected_proposal_count,
            proposal_vals, proposal_owners, proposal_votes, proposal_fate>>

vars == <<proposal_count, successful_proposal_count, rejected_proposal_count,
          proposal_vals, proposal_owners, proposal_votes, proposal_fate,
          last, create_calls, resolutions>>

\* ---- BTreeMap operations ----
EmptyMap == <<>>

InsertShared(m, k, v) == [x \in (DOMAIN m) \cup {k} |-> v]

Insert(m, k, v) == [x \in (DOMAIN m) \cup {k} |-> IF x = k THEN v ELSE m[x]]

RemoveClears(m, k) == EmptyMap

Remove(m, k) == [x \in (DOMAIN m) \ {k} |-> m[x]]

\* ---- the tally loop of close_proposal and void_proposal ----
UpvotesCountsAll(votes_vec) == Len(votes_vec)

RECURSIVE Upvotes(_)
Upvotes(votes_vec) ==
    IF votes_vec = <<>> THEN 0
    ELSE (IF Head(votes_vec)[2] THEN 1 ELSE 0) + Upvotes(Tail(votes_vec))

AcceptsStrict(upvotes, total) == 2 * upvotes > total

Accepts(upvotes, total) == 2 * upvotes >= total

VoidableFewUpvotes(upvotes) == upvotes <= 1

Voidable(upvotes) == upvotes = 0

NewIdPreIncrement(count) == count

NewId(count) == count + 1

\* ---- the assertions at the head of each method ----
VoteErrorNoClosedCheck(proposal_id) ==
    IF proposal_id \notin DOMAIN proposal_vals THEN "NotFound"
    ELSE "none"

VoteErrorOneVoteOnly(proposal_id) ==
    IF proposal_id \notin DOMAIN proposal_vals THEN "NotFound"
    ELSE IF proposal_id \in DOMAIN proposal_fate THEN "AlreadyClosed"
    ELSE IF proposal_votes[proposal_id] # <<>> THEN "AlreadyVoted"
    ELSE "none"

VoteError(proposal_id) ==
    IF proposal_id \notin DOMAIN proposal_vals THEN "NotFound"
    ELSE IF proposal_id \in DOMAIN proposal_fate THEN "AlreadyClosed"
    ELSE "none"

CloseErrorOwnerFirst(caller, proposal_id) ==
    IF proposal_id \notin DOMAIN proposal_vals THEN "NotFound"
    ELSE IF caller # proposal_owners[proposal_id] THEN "NotAuthorized"
    ELSE IF proposal_id \in DOMAIN proposal_fate THEN "AlreadyClosed"
    ELSE "none"

CloseErrorNoOwnerCheck(caller, proposal_id) ==
    IF proposal_id \notin DOMAIN proposal_vals THEN "NotFound"
    ELSE IF proposal_id \in DOMAIN proposal_fate THEN "AlreadyClosed"
    ELSE "none"

CloseErrorNoClosedCheck(caller, proposal_id) ==
    IF proposal_id \notin DOMAIN proposal_vals THEN "NotFound"
    ELSE IF caller # proposal_owners[proposal_id] THEN "NotAuthorized"
    ELSE "none"

CloseError(caller, proposal_id) ==
    IF proposal_id \notin DOMAIN proposal_vals THEN "NotFound"
    ELSE IF proposal_id \in DOMAIN proposal_fate THEN "AlreadyClosed"
    ELSE IF caller # proposal_owners[proposal_id] THEN "NotAuthorized"
    ELSE "none"

VoidErrorNoOwnerCheck(caller, proposal_id) ==
    IF proposal_id \notin DOMAIN proposal_vals THEN "NotFound"
    ELSE IF proposal_id \in DOMAIN proposal_fate THEN "AlreadyClosed"
    ELSE "none"

VoidErrorNoClosedCheck(caller, proposal_id) ==
    IF proposal_id \notin DOMAIN proposal_vals THEN "NotFound"
    ELSE IF caller # proposal_owners[proposal_id] THEN "NotAuthorized"
    ELSE "none"

VoidError(caller, proposal_id) ==
    IF proposal_id \notin DOMAIN proposal_vals THEN "NotFound"
    ELSE IF proposal_id \in DOMAIN proposal_fate THEN "AlreadyClosed"
    ELSE IF caller # proposal_owners[proposal_id] THEN "NotAuthorized"
    ELSE "none"

\* what the last call was and what it returned or failed with
Call(op, id, out) == [op |-> op, id |-> id, out |-> out]

TotalVotes ==
    LET RECURSIVE Sum(_)
        Sum(S) == IF S = {} THEN 0
                  ELSE LET p == CHOOSE x \in S : TRUE
                       IN Len(proposal_votes[p]) + Sum(S \ {p})
    IN Sum(DOMAIN proposal_votes)

Load == proposal_count + proposal_count + TotalVotes

Init ==
    /\ proposal_count = 0
    /\ successful_proposal_count = 0
    /\ rejected_proposal_count = 0
    /\ proposal_vals = EmptyMap
    /\ proposal_owners = EmptyMap
    /\ proposal_votes = EmptyMap
    /\ proposal_fate = EmptyMap
    /\ last = Call("default", 0, "ok")
    /\ create_calls = 0
    /\ resolutions = [p \in Ids |-> <<>>]

\* ---- create_proposal ----
CreateProposalNoVotes(caller, proposal_text) ==
    /\ Load + 2 <= MaxLoad
    /\ LET new_prop_count == NewId(proposal_count)
       IN /\ proposal_count' = new_prop_count
          /\ proposal_vals' = Insert(proposal_vals, new_prop_count, proposal_text)
          /\ proposal_owners' = Insert(proposal_owners, new_prop_count, caller)
          /\ last' = Call("create_proposal", new_prop_count, "ok")
    /\ create_calls' = create_calls + 1
    /\ UNCHANGED <<successful_proposal_count, rejected_proposal_count,
                   proposal_votes, proposal_fate, resolutions>>

CreateProposal(caller, proposal_text) ==
    /\ Load + 2 <= MaxLoad
    /\ LET new_prop_count == NewId(proposal_count)
       IN /\ proposal_count' = new_prop_count
          /\ proposal_vals' = Insert(proposal_vals, new_prop_count, proposal_text)
          /\ proposal_owners' = Insert(proposal_owners, new_prop_count, caller)
          /\ proposal_votes' = Insert(proposal_votes, new_prop_count, <<>>)
          /\ last' = Call("create_proposal", new_prop_count, "ok")
    /\ create_calls' = create_calls + 1
    /\ UNCHANGED <<successful_proposal_count, rejected_proposal_count,
                   proposal_fate, resolutions>>

\* ---- vote_on_proposal ----
\* votes_vec.push((voter, vote_choice))
PushFront(votes_vec, voter, vote_choice) == <<<<voter, vote_choice>>>> \o votes_vec

Push(votes_vec, voter, vote_choice) == Append(votes_vec, <<voter, vote_choice>>)

VoteOnProposal(caller, proposal_id, vote_choice) ==
    LET err == VoteError(proposal_id)
    IN IF err # "none"
       THEN /\ last' = Call("vote_on_proposal", proposal_id, err)
            /\ UNCHANGED <<ledger, create_calls, resolutions>>
       ELSE /\ Load + 1 <= MaxLoad
            /\ LET votes_vec == Push(proposal_votes[proposal_id], caller, vote_choice)
               IN proposal_votes' =
                      Insert(Remove(proposal_votes, proposal_id), proposal_id, votes_vec)
            /\ last' = Call("vote_on_proposal", proposal_id, "ok")
            /\ UNCHANGED <<proposal_count, successful_proposal_count,
                           rejected_proposal_count, proposal_vals, proposal_owners,
                           proposal_fate, create_calls, resolutions>>

\* ---- close_proposal ----
\* the two branches that record the outcome of the tally
CloseRecordCountsBoth(proposal_id, accepted) ==
    IF accepted
    THEN /\ proposal_fate' = Insert(proposal_fate, proposal_id, TRUE)
         /\ successful_proposal_count' = successful_proposal_count + 1
         /\ rejected_proposal_count' = rejected_proposal_count + 1
    ELSE /\ proposal_fate' = Insert(proposal_fate, proposal_id, FALSE)
         /\ rejected_proposal_count' = rejected_proposal_count + 1
         /\ UNCHANGED successful_proposal_count

CloseRecordWrongCounter(proposal_id, accepted) ==
    IF accepted
    THEN /\ proposal_fate' = Insert(proposal_fate, proposal_id, TRUE)
         /\ successful_proposal_count' = successful_proposal_count + 1
         /\ UNCHANGED rejected_proposal_count
    ELSE /\ proposal_fate' = Insert(proposal_fate, proposal_id, FALSE)
         /\ successful_proposal_count' = successful_proposal_count + 1
         /\ UNCHANGED rejected_proposal_count

CloseRecord(proposal_id, accepted) ==
    IF accepted
    THEN /\ proposal_fate' = Insert(proposal_fate, proposal_id, TRUE)
         /\ successful_proposal_count' = successful_proposal_count + 1
         /\ UNCHANGED rejected_proposal_count
    ELSE /\ proposal_fate' = Insert(proposal_fate, proposal_id, FALSE)
         /\ rejected_proposal_count' = rejected_proposal_count + 1
         /\ UNCHANGED successful_proposal_count

CloseProposal(caller, proposal_id) ==
    LET err == CloseError(caller, proposal_id)
    IN IF err # "none"
       THEN /\ last' = Call("close_proposal", proposal_id, err)
            /\ UNCHANGED <<ledger, create_calls, resolutions>>
       ELSE LET votes_vec == proposal_votes[proposal_id]
                upvotes == Upvotes(votes_vec)
                accepted == Accepts(upvotes, Len(votes_vec))
            IN /\ CloseRecord(proposal_id, accepted)
               /\ last' = Call("close_proposal", proposal_id,
                               IF accepted THEN "true" ELSE "false")
               /\ resolutions' = [resolutions EXCEPT ![proposal_id] =
                                      Append(@, "close_proposal")]
               /\ UNCHANGED <<proposal_count, proposal_vals, proposal_owners,
                              proposal_votes, create_calls>>

\* ---- void_proposal ----
VoidRecordNoCount(proposal_id) ==
    /\ proposal_fate' = Insert(proposal_fate, proposal_id, FALSE)
    /\ UNCHANGED <<successful_proposal_count, rejected_proposal_count>>

VoidRecordNoFate(proposal_id) ==
    /\ rejected_proposal_count' = rejected_proposal_count + 1
    /\ UNCHANGED <<successful_proposal_count, proposal_fate>>

VoidRecord(proposal_id) ==
    /\ proposal_fate' = Insert(proposal_fate, proposal_id, FALSE)
    /\ rejected_proposal_count' = rejected_proposal_count + 1
    /\ UNCHANGED successful_proposal_count

VoidProposal(caller, proposal_id) ==
    LET err == VoidError(caller, proposal_id)
    IN IF err # "none"
       THEN /\ last' = Call("void_proposal", proposal_id, err)
            /\ UNCHANGED <<ledger, create_calls, resolutions>>
       ELSE LET votes_vec == proposal_votes[proposal_id]
                upvotes == Upvotes(votes_vec)
            IN IF Voidable(upvotes)
               THEN /\ VoidRecord(proposal_id)
                    /\ last' = Call("void_proposal", proposal_id, "true")
                    /\ resolutions' = [resolutions EXCEPT ![proposal_id] =
                                           Append(@, "void_proposal")]
                    /\ UNCHANGED <<proposal_count, proposal_vals, proposal_owners,
                                   proposal_votes, create_calls>>
               ELSE /\ last' = Call("void_proposal", proposal_id, "false")
                    /\ UNCHANGED <<ledger, create_calls, resolutions>>

Next ==
    \/ \E caller \in Accounts, proposal_text \in Texts :
           CreateProposal(caller, proposal_text)
    \/ \E caller \in Accounts, proposal_id \in Ids, vote_choice \in BOOLEAN :
           VoteOnProposal(caller, proposal_id, vote_choice)
    \/ \E caller \in Accounts, proposal_id \in Ids :
           CloseProposal(caller, proposal_id)
    \/ \E caller \in Accounts, proposal_id \in Ids :
           VoidProposal(caller, proposal_id)

Spec == Init /\ [][Next]_vars

\* ---- what the claims are stated in ----
Yes(p) == Cardinality({i \in 1..Len(proposal_votes[p]) : proposal_votes[p][i][2]})

Total(p) == Len(proposal_votes[p])

Choices(p) == [i \in 1..Len(proposal_votes[p]) |-> proposal_votes[p][i][2]]

Open(p) == p \in DOMAIN proposal_vals /\ p \notin DOMAIN proposal_fate

Resolving(call) ==
    \/ call.op = "close_proposal" /\ call.out \in {"true", "false"}
    \/ call.op = "void_proposal" /\ call.out = "true"

\* C1: close_proposal by the owner on an existing, unresolved proposal returns
\* true and records fate accepted (counting it as successful) iff 2*yes >= total
\* over the votes cast so far, and otherwise returns false and records fate
\* rejected (counting it as rejected); ties and zero votes are accepted.
C1_CloseMajority ==
    [][\A c \in Accounts, p \in Ids :
          (/\ last'.op = "close_proposal" /\ last'.id = p
           /\ Open(p) /\ c = proposal_owners[p] /\ CloseProposal(c, p)) =>
              IF 2 * Yes(p) >= Total(p)
              THEN /\ last'.out = "true"
                   /\ p \in DOMAIN proposal_fate' /\ proposal_fate'[p] = TRUE
                   /\ successful_proposal_count' = successful_proposal_count + 1
                   /\ rejected_proposal_count' = rejected_proposal_count
              ELSE /\ last'.out = "false"
                   /\ p \in DOMAIN proposal_fate' /\ proposal_fate'[p] = FALSE
                   /\ rejected_proposal_count' = rejected_proposal_count + 1
                   /\ successful_proposal_count' = successful_proposal_count]_vars

\* C1 witness: votes [true,true,false,false] closed as accepted.
C1_Witness ==
    /\ last = Call("close_proposal", 1, "true")
    /\ Choices(1) = <<TRUE, TRUE, FALSE, FALSE>>
    /\ 1 \in DOMAIN proposal_fate /\ proposal_fate[1] = TRUE

\* C2: once a proposal's fate is set it keeps its value and stays set, and every
\* later vote_on_proposal, close_proposal or void_proposal on that ID fails with
\* AlreadyClosed and leaves the ledger unchanged.
C2_FateWriteOnce ==
    [][\A p \in DOMAIN proposal_fate :
          /\ p \in DOMAIN proposal_fate'
          /\ proposal_fate'[p] = proposal_fate[p]
          /\ (last'.id = p /\ last'.op \in {"vote_on_proposal", "close_proposal",
                                            "void_proposal"})
                 => (last'.out = "AlreadyClosed" /\ UNCHANGED ledger)]_vars

\* C2 witness: a void_proposal refused on a proposal already accepted, while
\* another proposal is still open.
C2_Witness ==
    /\ last.op = "void_proposal" /\ last.out = "AlreadyClosed"
    /\ last.id \in DOMAIN proposal_fate /\ proposal_fate[last.id] = TRUE
    /\ \E q \in Ids : Open(q)

\* C3: successful_proposal_count + rejected_proposal_count is the number of
\* keys of the fate store.
C3_CountersMatchFates ==
    successful_proposal_count + rejected_proposal_count
        = Cardinality(DOMAIN proposal_fate)

\* C3 witness: one proposal accepted and one voided.
C3_Witness ==
    /\ successful_proposal_count = 1 /\ rejected_proposal_count = 1
    /\ \E p \in Ids : resolutions[p] = <<"void_proposal">>

\* C4: void_proposal by the owner on an existing, unresolved proposal returns
\* true, sets fate rejected and increments the rejected counter when there is no
\* supporting vote (whatever the opposing votes); otherwise it returns false,
\* leaves the ledger unchanged and the proposal open, so that the owner's next
\* close_proposal or void_proposal passes its checks.
C4_VoidOnlyWithoutYes ==
    [][\A c \in Accounts, p \in Ids :
          (/\ last'.op = "void_proposal" /\ last'.id = p
           /\ Open(p) /\ c = proposal_owners[p] /\ VoidProposal(c, p)) =>
              IF Yes(p) = 0
              THEN /\ last'.out = "true"
                   /\ p \in DOMAIN proposal_fate' /\ proposal_fate'[p] = FALSE
                   /\ rejected_proposal_count' = rejected_proposal_count + 1
                   /\ successful_proposal_count' = successful_proposal_count
              ELSE /\ last'.out = "false"
                   /\ UNCHANGED ledger
                   /\ Open(p)'
                   /\ CloseError(c, p)' = "none"
                   /\ VoidError(c, p)' = "none"]_vars

\* C4 witness: a void_proposal that returned false on a proposal with one
\* supporting and three opposing votes, which is still open.
C4_Witness ==
    /\ last = Call("void_proposal", 1, "false")
    /\ Open(1) /\ Yes(1) = 1 /\ Total(1) = 4

\* C5: close_proposal by a caller other than the owner, on an existing
\* unresolved proposal, fails with NotAuthorized and leaves the fate store, the
\* vote store and both resolution counters unchanged.
C5_CloseByNonOwner ==
    [][\A c \in Accounts, p \in Ids :
          (/\ last'.op = "close_proposal" /\ last'.id = p
           /\ Open(p) /\ c # proposal_owners[p] /\ CloseProposal(c, p)) =>
              /\ last'.out = "NotAuthorized"
              /\ UNCHANGED <<proposal_fate, proposal_votes,
                             successful_proposal_count, rejected_proposal_count>>]_vars

\* C5 witness: a close_proposal refused with NotAuthorized on a proposal that
\* has votes.
C5_Witness ==
    /\ last.op = "close_proposal" /\ last.out = "NotAuthorized"
    /\ Open(last.id) /\ Total(last.id) > 0

\* C6: vote_on_proposal on an ID with no record fails with NotFound, and on a
\* proposal whose fate is resolved it fails with AlreadyClosed; in both cases
\* the ledger is unchanged.
C6_VoteRefused ==
    [][\A p \in Ids :
          (last'.op = "vote_on_proposal" /\ last'.id = p) =>
              /\ p \notin DOMAIN proposal_vals =>
                     (last'.out = "NotFound" /\ UNCHANGED ledger)
              /\ p \in DOMAIN proposal_fate =>
                     (last'.out = "AlreadyClosed" /\ UNCHANGED ledger)]_vars

\* C6 witness: a vote refused with AlreadyClosed on a proposal resolved by
\* void_proposal, which has a vote from before.
C6_Witness ==
    /\ last.op = "vote_on_proposal" /\ last.out = "AlreadyClosed"
    /\ resolutions[last.id] = <<"void_proposal">>
    /\ Total(last.id) = 1

\* C7: the proposal counter is the number of create_proposal calls made, the
\* k-th call assigns ID k, and the keys of the text store are exactly
\* 1..proposal_count.
C7_DenseIds ==
    /\ proposal_count = create_calls
    /\ DOMAIN proposal_vals = 1..proposal_count
    /\ last.op = "create_proposal" => last.id = create_calls

\* C7 witness: the second create_proposal has just been made.
C7_Witness ==
    /\ last.op = "create_proposal" /\ create_calls = 2
    /\ DOMAIN proposal_vals = {1, 2}

\* C8: a close_proposal on an ID that an earlier close_proposal resolved
\* (as accepted or as rejected) fails with AlreadyClosed and changes neither
\* the fate store nor a counter.
C8_SecondCloseRefused ==
    [][\A p \in Ids :
          (/\ resolutions[p] # <<>>
           /\ Head(resolutions[p]) = "close_proposal"
           /\ last'.op = "close_proposal" /\ last'.id = p) =>
              /\ last'.out = "AlreadyClosed"
              /\ UNCHANGED <<proposal_fate, proposal_count,
                             successful_proposal_count, rejected_proposal_count>>]_vars

\* C8 witness: a second close_proposal refused on a proposal the first one
\* rejected.
C8_Witness ==
    /\ last.op = "close_proposal" /\ last.out = "AlreadyClosed"
    /\ resolutions[last.id] = <<"close_proposal">>
    /\ proposal_fate[last.id] = FALSE

\* C9: a step that resolves a proposal increases exactly one of the two
\* resolution counters, by one; every other step leaves both as they are.
C9_CountersStep ==
    [][LET ds == successful_proposal_count' - successful_proposal_count
           dr == rejected_proposal_count' - rejected_proposal_count
       IN IF Resolving(last')
          THEN ds \in {0, 1} /\ dr \in {0, 1} /\ ds + dr = 1
          ELSE ds = 0 /\ dr = 0]_vars

\* C9 witness: a void_proposal has just resolved a proposal after another was
\* accepted.
C9_Witness ==
    /\ last.op = "void_proposal" /\ last.out = "true"
    /\ successful_proposal_count = 1 /\ rejected_proposal_count = 1

\* C10: for each ID at most one close_proposal or void_proposal call changes
\* the ledger; the fate store changes only by such a call adding the fate of a
\* proposal that had none, and create_proposal and vote_on_proposal leave the
\* fate store alone.
C10_SingleResolution ==
    /\ [](\A p \in Ids : Len(resolutions[p]) <= 1)
    /\ [][/\ last'.op \in {"create_proposal", "vote_on_proposal"}
              => UNCHANGED proposal_fate
          /\ (last'.op \in {"close_proposal", "void_proposal"} /\ ledger' # ledger)
              => /\ Resolving(last')
                 /\ Len(resolutions'[last'.id]) = Len(resolutions[last'.id]) + 1
                 /\ last'.id \notin DOMAIN proposal_fate
                 /\ DOMAIN proposal_fate' = DOMAIN proposal_fate \cup {last'.id}]_vars

\* C10 witness: one proposal resolved by close_proposal, another by
\* void_proposal, and a further void_proposal on the first refused.
C10_Witness ==
    /\ last.op = "void_proposal" /\ last.out = "AlreadyClosed"
    /\ resolutions[last.id] = <<"close_proposal">>
    /\ \E q \in Ids : resolutions[q] = <<"void_proposal">>

IsPrefix(s, t) == Len(s) <= Len(t) /\ SubSeq(t, 1, Len(s)) = s

\* C11: a proposal's vote sequence only grows at its end: over every step the
\* old sequence is a prefix of the new one, and a successful
\* vote_on_proposal(caller, id, choice) makes it the old sequence with
\* (caller, choice) appended.
C11_VotesAppendOnly ==
    [][/\ \A p \in DOMAIN proposal_votes :
              /\ p \in DOMAIN proposal_votes'
              /\ IsPrefix(proposal_votes[p], proposal_votes'[p])
       /\ \A c \in Accounts, p \in Ids, choice \in BOOLEAN :
              (/\ last'.op = "vote_on_proposal" /\ last'.id = p /\ last'.out = "ok"
               /\ VoteOnProposal(c, p, choice)) =>
                  proposal_votes'[p] = Append(proposal_votes[p], <<c, choice>>)]_vars

\* C11 witness: a third vote has just been appended after two earlier ones,
\* repeating the first entry.
C11_Witness ==
    /\ last = Call("vote_on_proposal", 1, "ok")
    /\ proposal_votes[1] = <<<<"harry", TRUE>>, <<"mikky", FALSE>>, <<"harry", TRUE>>>>

\* C12: a vote_on_proposal on an existing, unresolved proposal succeeds whoever
\* the caller is (the owner, or an identity that has voted already) and adds
\* exactly one entry, the caller's, to the proposal's sequence.
C12_VoteAlwaysAccepted ==
    [][\A c \in Accounts, p \in Ids, choice \in BOOLEAN :
          (/\ last'.op = "vote_on_proposal" /\ last'.id = p
           /\ Open(p) /\ VoteOnProposal(c, p, choice)) =>
              /\ last'.out = "ok"
              /\ Len(proposal_votes'[p]) = Len(proposal_votes[p]) + 1
              /\ proposal_votes'[p][Len(proposal_votes'[p])] = <<c, choice>>]_vars

\* C12 witness: the owner of a proposal has just voted on it for the second
\* time.
C12_Witness ==
    /\ last = Call("vote_on_proposal", 1, "ok")
    /\ Total(1) = 2
    /\ proposal_votes[1][1][1] = proposal_owners[1]
    /\ proposal_votes[1][2][1] = proposal_owners[1]

\* the precondition failures that apply to a close_proposal or void_proposal
\* call by c on p
FailuresOf(c, p) ==
    (IF p \notin DOMAIN proposal_vals THEN {"NotFound"} ELSE {})
    \cup (IF p \in DOMAIN proposal_fate THEN {"AlreadyClosed"} ELSE {})
    \cup (IF p \in DOMAIN proposal_owners /\ c # proposal_owners[p]
          THEN {"NotAuthorized"} ELSE {})

GuardedOutcome(c, p) ==
    IF FailuresOf(c, p) # {}
    THEN last'.out \in FailuresOf(c, p) /\ UNCHANGED ledger
    ELSE last'.out \in {"true", "false"}

\* C13: close_proposal and void_proposal have the same preconditions: either
\* call fails exactly when the ID has no record, the proposal is resolved or
\* the caller is not the owner, with one of the failures that apply, and a
\* failed call leaves the whole ledger unchanged.
C13_SamePreconditions ==
    [][\A c \in Accounts, p \in Ids :
          /\ (/\ last'.op = "close_proposal" /\ last'.id = p
              /\ CloseProposal(c, p)) => GuardedOutcome(c, p)
          /\ (/\ last'.op = "void_proposal" /\ last'.id = p
              /\ VoidProposal(c, p)) => GuardedOutcome(c, p)]_vars

\* C13 witness: a void_proposal refused with NotAuthorized on an open proposal
\* that has only opposing votes.
C13_Witness ==
    /\ last.op = "void_proposal" /\ last.out = "NotAuthorized"
    /\ Open(last.id) /\ Total(last.id) > 0 /\ Yes(last.id) = 0

\* C14: the text store, the owner store and the vote store have the same keys,
\* 1..proposal_count, each holding a text, an owner and a vote sequence, and a
\* proposal that has just been created has an empty vote sequence and no fate.
C14_RecordsComplete ==
    /\ DOMAIN proposal_vals = 1..proposal_count
    /\ DOMAIN proposal_owners = 1..proposal_count
    /\ DOMAIN proposal_votes = 1..proposal_count
    /\ \A p \in 1..proposal_count :
           /\ proposal_vals[p] \in Texts
           /\ proposal_owners[p] \in Accounts
           /\ proposal_votes[p] \in Seq(Accounts \X BOOLEAN)
    /\ last.op = "create_proposal" =>
           /\ proposal_votes[last.id] = <<>>
           /\ last.id \notin DOMAIN proposal_fate

\* C14 witness: a second proposal has just been created while the first has a
\* vote and a fate.
C14_Witness ==
    /\ last = Call("create_proposal", 2, "ok")
    /\ Total(1) > 0 /\ 1 \in DOMAIN proposal_fate
    /\ Total(2) = 0 /\ 2 \notin DOMAIN proposal_fate

\* ---- the read-only queries ----
\* They write no field, so the ledgers they can be asked about are those of
\* Spec; SpecQueries adds them to the calls of a run, asked of ledgers whose
\* stored records are within MaxQueryLoad.
MaxQueryLoad == 5

QueryIds == 0..MaxProposals

QueryCall(op, id, val) == [op |-> op, id |-> id, out |-> "ok", val |-> val]

get_proposal_count == proposal_count

get_all_proposals == proposal_vals

get_all_votes_upvotes_only(proposal_id) ==
    IF proposal_id \notin DOMAIN proposal_votes THEN <<>>
    ELSE SelectSeq(proposal_votes[proposal_id], LAMBDA item : item[2])

get_all_votes(proposal_id) ==
    IF proposal_id \notin DOMAIN proposal_votes THEN <<>>
    ELSE proposal_votes[proposal_id]

GetProposalCount ==
    /\ Load <= MaxQueryLoad
    /\ last' = QueryCall("get_proposal_count", 0, get_proposal_count)
    /\ UNCHANGED <<ledger, create_calls, resolutions>>

GetAllProposals ==
    /\ Load <= MaxQueryLoad
    /\ last' = QueryCall("get_all_proposals", 0, get_all_proposals)
    /\ UNCHANGED <<ledger, create_calls, resolutions>>

GetAllVotes(proposal_id) ==
    /\ Load <= MaxQueryLoad
    /\ last' = QueryCall("get_all_votes", proposal_id, get_all_votes(proposal_id))
    /\ UNCHANGED <<ledger, create_calls, resolutions>>

NextQueries ==
    \/ Next
    \/ GetProposalCount
    \/ GetAllProposals
    \/ \E proposal_id \in QueryIds : GetAllVotes(proposal_id)

SpecQueries == Init /\ [][NextQueries]_vars

QueryOps == {"get_proposal_count", "get_all_proposals", "get_all_votes"}

\* C15: a query never fails and leaves the ledger unchanged; get_all_votes
\* returns the vote sequence stored for the ID, or the empty sequence when the
\* ID has none, get_all_proposals returns the whole text store and
\* get_proposal_count the proposal counter.
C15_QueriesPure ==
    [][last'.op \in QueryOps =>
          /\ UNCHANGED ledger
          /\ last'.out = "ok"
          /\ last'.op = "get_proposal_count" => last'.val = proposal_count
          /\ last'.op = "get_all_proposals" =>
                 /\ DOMAIN last'.val = DOMAIN proposal_vals
                 /\ \A p \in DOMAIN proposal_vals : last'.val[p] = proposal_vals[p]
          /\ last'.op = "get_all_votes" =>
                 IF last'.id \in 1..proposal_count
                 THEN last'.val = proposal_votes[last'.id]
                 ELSE last'.val = <<>>]_vars

\* C15 witness: get_all_votes on an ID that does not exist has returned the
\* empty sequence, while proposal 1 has votes.
C15_Witness ==
    /\ last.op = "get_all_votes"
    /\ last.id \notin DOMAIN proposal_votes /\ last.val = <<>>
    /\ 1 \in DOMAIN proposal_votes /\ Total(1) = 2

\* C16: create_proposal records the text it is given and its caller as owner
\* under a new ID, and no step changes or removes the text or the owner of an
\* existing proposal.
C16_TextAndOwnerFixed ==
    [][/\ \A p \in DOMAIN proposal_vals :
              /\ p \in DOMAIN proposal_vals' /\ proposal_vals'[p] = proposal_vals[p]
              /\ p \in DOMAIN proposal_owners'
              /\ proposal_owners'[p] = proposal_owners[p]
       /\ \A c \in Accounts, t \in Texts :
              (last'.op = "create_proposal" /\ CreateProposal(c, t)) =>
                  /\ last'.id \notin DOMAIN proposal_vals
                  /\ proposal_vals'[last'.id] = t
                  /\ proposal_owners'[last'.id] = c]_vars

\* C16 witness: two proposals with different texts and different owners, the
\* first voted on and resolved, the second just closed.
C16_Witness ==
    /\ last.op = "close_proposal" /\ last.id = 2 /\ last.out \in {"true", "false"}
    /\ proposal_vals[1] # proposal_vals[2]
    /\ proposal_owners[1] # proposal_owners[2]
    /\ Total(1) > 0 /\ 1 \in DOMAIN proposal_fate

\* the step leaves the record of proposal q (text, owner, votes, fate) as it was
SameRecord(q) ==
    /\ q \in DOMAIN proposal_vals' /\ proposal_vals'[q] = proposal_vals[q]
    /\ q \in DOMAIN proposal_owners' /\ proposal_owners'[q] = proposal_owners[q]
    /\ q \in DOMAIN proposal_votes' /\ proposal_votes'[q] = proposal_votes[q]
    /\ (q \in DOMAIN proposal_fate') = (q \in DOMAIN proposal_fate)
    /\ q \in DOMAIN proposal_fate => proposal_fate'[q] = proposal_fate[q]

\* C17: a successful vote_on_proposal, close_proposal or void_proposal on p
\* leaves the record of every other proposal unchanged; the vote also leaves
\* the three counters and the fate store unchanged; the close or void leaves
\* p's votes and the proposal counter unchanged; create_proposal leaves every
\* existing record and both resolution counters unchanged.
C17_OtherProposalsUntouched ==
    [][/\ (last'.op = "vote_on_proposal" /\ last'.out = "ok") =>
              /\ \A q \in DOMAIN proposal_vals \ {last'.id} : SameRecord(q)
              /\ UNCHANGED <<proposal_count, successful_proposal_count,
                             rejected_proposal_count, proposal_fate>>
       /\ Resolving(last') =>
              /\ \A q \in DOMAIN proposal_vals \ {last'.id} : SameRecord(q)
              /\ last'.id \in DOMAIN proposal_votes'
              /\ proposal_votes'[last'.id] = proposal_votes[last'.id]
              /\ UNCHANGED proposal_count
       /\ last'.op = "create_proposal" =>
              /\ \A q \in DOMAIN proposal_vals : SameRecord(q)
              /\ UNCHANGED <<successful_proposal_count, rejected_proposal_count>>]_vars

\* C17 witness: a vote has just been cast on proposal 2 while proposal 1 has a
\* vote and a fate.
C17_Witness ==
    /\ last = Call("vote_on_proposal", 2, "ok")
    /\ Total(2) = 1
    /\ Total(1) = 1 /\ 1 \in DOMAIN proposal_fate

\* C18: close_proposal and void_proposal check existence first, then that the
\* proposal is unresolved, then ownership: on an ID with no record they fail
\* with NotFound whoever calls, on a resolved proposal they fail with
\* AlreadyClosed also when the caller is not the owner, and they fail with
\* NotAuthorized only on an existing, unresolved proposal.
C18_PreconditionOrder ==
    [][\A p \in Ids :
          (last'.op \in {"close_proposal", "void_proposal"} /\ last'.id = p) =>
              /\ p \notin DOMAIN proposal_vals => last'.out = "NotFound"
              /\ last'.out = "NotAuthorized" => Open(p)
              /\ \A c \in Accounts :
                     (/\ p \in DOMAIN proposal_fate /\ c # proposal_owners[p]
                      /\ (CloseProposal(c, p) \/ VoidProposal(c, p))) =>
                         last'.out = "AlreadyClosed"]_vars

\* C18 witness: a close_proposal refused with AlreadyClosed on the only
\* proposal, which void_proposal resolved (the state either caller's call
\* leads to).
C18_Witness ==
    /\ last.op = "close_proposal" /\ last.out = "AlreadyClosed"
    /\ resolutions[last.id] = <<"void_proposal">>
    /\ proposal_count = 1

\* C19: successful_proposal_count is the number of proposals with fate
\* accepted, rejected_proposal_count the number with fate rejected, and every
\* ID with a fate is an existing proposal ID.
C19_CountersPerFate ==
    /\ successful_proposal_count
           = Cardinality({p \in DOMAIN proposal_fate : proposal_fate[p] = TRUE})
    /\ rejected_proposal_count
           = Cardinality({p \in DOMAIN proposal_fate : proposal_fate[p] = FALSE})
    /\ DOMAIN proposal_fate \subseteq 1..proposal_count

\* C19 witness: two proposals, one accepted and one rejected by
\* close_proposal.
C19_Witness ==
    /\ proposal_count = 2
    /\ successful_proposal_count = 1 /\ rejected_proposal_count = 1
    /\ \E p \in Ids : resolutions[p] = <<"close_proposal">> /\ proposal_fate[p] = FALSE

\* C20: a recorded fate agrees with the proposal's votes: accepted comes with
\* 2*yes >= total, rejected with 2*yes < total or yes = 0; and no step changes
\* the vote sequence of a proposal that has a fate.
C20_FateMatchesVotes ==
    /\ [](\A p \in DOMAIN proposal_fate :
              IF proposal_fate[p]
              THEN 2 * Yes(p) >= Total(p)
              ELSE 2 * Yes(p) < Total(p) \/ Yes(p) = 0)
    /\ [][\A p \in DOMAIN proposal_fate :
              /\ p \in DOMAIN proposal_votes'
              /\ proposal_votes'[p] = proposal_votes[p]]_vars

\* C20 witness: of two proposals without votes, one was accepted by
\* close_proposal and the other rejected by void_proposal.
C20_Witness ==
    \E p, q \in DOMAIN proposal_fate :
        /\ Total(p) = 0 /\ proposal_fate[p] = TRUE
        /\ Total(q) = 0 /\ proposal_fate[q] = FALSE
        /\ resolutions[p] = <<"close_proposal">>
        /\ resolutions[q] = <<"void_proposal">>

====
